---------------------------- MODULE Spec2Model ----------------------------
(***************************************************************************)
(* examples/tokens/token_delete_transaction.py: a sequential script that   *)
(* sets up a client, generates an admin key, creates a token and deletes   *)
(* it.  The script is modelled statement by statement; the SDK it calls    *)
(* (Network, Client, AccountId, PrivateKey, the two transaction builders,  *)
(* ResponseCode) is modelled as a collaborator whose calls return or raise.*)
(***************************************************************************)
EXTENDS Integers, Sequences, FiniteSets, TLC

(***************************************************************************)
(* Bounds of the model.                                                    *)
(***************************************************************************)
NumTokenIds == 2
NumAdminKeys == 2
NumUnknownCodes == 1

(***************************************************************************)
(* Process environment (os.getenv).                                        *)
(***************************************************************************)
Unset == "<unset>"

EnvNames == {"NETWORK", "OPERATOR_ID", "OPERATOR_KEY", "KEY_TYPE"}

EnvChoices ==
    [NETWORK      : {Unset, "TESTNET", "bogusnet"},
     OPERATOR_ID  : {Unset, "0.0.1001", "not-an-id"},
     OPERATOR_KEY : {Unset, "302e-operator", "zz"},
     KEY_TYPE     : {Unset, "ecdsa", "rsa"}]

\* os.getenv(name, default)
getenv(e, name, default) == IF e[name] = Unset THEN default ELSE e[name]

\* str.lower() on the strings the model uses
lower(s) == IF s = "TESTNET" THEN "testnet" ELSE s

\* line 20: network_name = os.getenv('NETWORK', 'testnet').lower()
network_name_of(e) == lower(getenv(e, "NETWORK", "testnet"))

(***************************************************************************)
(* Python exceptions.  SystemExit derives from BaseException, not from     *)
(* Exception; the other three derive from Exception.                       *)
(***************************************************************************)
NoExc == "none"
SystemExit == "SystemExit"
Exceptions == {"ValueError", "TypeError", "RuntimeError"}

IsExceptionSubclass(e) == e \in Exceptions

\* Mutant of SetupCatches: the handler names a class the parsers never raise.
SetupCatchesKeyError(e) == e = "KeyError"
\* line 36: except (TypeError, ValueError)
SetupCatches(e) == e \in {"TypeError", "ValueError"}

\* Mutant of StepCatches: a bare except (BaseException) that also intercepts SystemExit.
StepCatchesBase(e) == e # NoExc
\* Mutant of StepCatches: a handler too narrow for what the collaborator raises.
StepCatchesValueError(e) == e = "ValueError"
\* lines 90 and 128: except Exception as e
StepCatches(e) == IsExceptionSubclass(e)

(***************************************************************************)
(* The collaborator SDK.                                                   *)
(***************************************************************************)
KnownNetworks == {"testnet", "mainnet", "previewnet", "solo"}
KeyTypes == {"ed25519", "ecdsa"}

AccountIdParses(s) == s = "0.0.1001"
AccountId_from_string(s) == "AccountId(" \o s \o ")"

PrivateKeyParses(s) == s = "302e-operator"
PrivateKey_from_string(s) == "PrivateKey(operator)"

AdminKeys == {"PrivateKey(admin" \o ToString(i) \o ")" : i \in 1..NumAdminKeys}
TokenIds == {"0.0." \o ToString(1233 + i) : i \in 1..NumTokenIds}
None == "None"

\* What a collaborator call can do: return ("ok") or raise.  A call whose
\* argument the collaborator rejects can only raise.
Outcomes(rejects, raises) == IF rejects THEN raises ELSE {"ok"} \cup Exceptions

\* ResponseCode: an IntEnum; the two members the model uses.
SUCCESS_CODE == 22
INVALID_SIGNATURE_CODE == 7
KnownCodes == {SUCCESS_CODE, INVALID_SIGNATURE_CODE}
UnknownCodes == {9000 + i : i \in 1..NumUnknownCodes}

ResponseCodeName(c) == IF c = SUCCESS_CODE THEN "SUCCESS" ELSE "INVALID_SIGNATURE"

\* A receipt status is a plain int, a ResponseCode member, or a foreign
\* enum-like object (it has a .name and ResponseCode() does not accept it).
Member(c) == [kind |-> "member", code |-> c]
RawStatuses ==
    [kind : {"int"}, code : KnownCodes \cup UnknownCodes]
      \cup [kind : {"member"}, code : KnownCodes]
      \cup [kind : {"foreign"}, code : UnknownCodes]
NoStatus == [kind |-> "none", code |-> 0]

\* ResponseCode(x) raises ValueError unless x is a member or a known value.
ResponseCodeRaises(x) == ~(x.kind \in {"int", "member"} /\ x.code \in KnownCodes)
ResponseCode(x) == Member(x.code)

\* Python equality: an IntEnum member equals the int and the member of the
\* same value; a foreign object equals only itself.
PyEq(a, b) ==
    IF a.kind = "foreign" \/ b.kind = "foreign" THEN a = b ELSE a.code = b.code

hasattr_name(x) == x.kind \in {"member", "foreign"}
name_of(x) ==
    IF x.kind = "member" THEN ResponseCodeName(x.code)
    ELSE "FOREIGN_" \o ToString(x.code)
str(x) ==
    IF x.kind = "int" THEN ToString(x.code) ELSE name_of(x)

IsSuccessSentinel(x) == x.kind \in {"int", "member"} /\ x.code = SUCCESS_CODE

\* A transaction request object.
Setters == {"set_token_name", "set_token_symbol", "set_initial_supply",
            "set_treasury_account_id", "set_admin_key", "set_token_id"}

NoTx == [kind |-> "none", fields |-> [f \in Setters |-> None], frozen |-> FALSE,
         sigs |-> << >>, executed |-> 0, hist |-> << >>]
NewTx(k) == [NoTx EXCEPT !.kind = k]

Call(op, arg) == [op |-> op, arg |-> arg]

Range(s) == {s[i] : i \in 1..Len(s)}

FieldOf(tx, f) == tx.fields[f]

\* The builder rejects a setter on a frozen request and a sign or execute
\* on a request that is not frozen.
TxRejects(tx, c) ==
    \/ c.op \in Setters /\ tx.frozen
    \/ c.op \in {"sign", "execute"} /\ ~tx.frozen
    \/ c.op # "new" /\ tx.kind = "none"

TxApply(tx, c) ==
    LET t == [tx EXCEPT !.hist = Append(@, c)] IN
    CASE c.op = "new"          -> [NewTx(c.arg) EXCEPT !.hist = <<c>>]
      [] c.op \in Setters      -> [t EXCEPT !.fields[c.op] = c.arg]
      [] c.op = "freeze_with"  -> [t EXCEPT !.frozen = TRUE]
      [] c.op = "sign"         -> [t EXCEPT !.sigs = Append(@, c.arg)]
      [] c.op = "execute"      -> [t EXCEPT !.executed = @ + 1]
      [] OTHER                 -> t

\* A rejected or failing call leaves the request as it was, but for the
\* record of the attempt.
TxAttempt(tx, c) == [tx EXCEPT !.hist = Append(@, c)]

Lifecycle(tx) ==
    IF tx.kind = "none" THEN "Absent"
    ELSE IF tx.executed > 0 THEN "Submitted"
    ELSE IF ~tx.frozen THEN "Draft"
    ELSE IF Len(tx.sigs) = 0 THEN "Frozen"
    ELSE IF Len(tx.sigs) = 1 THEN "PartiallySigned"
    ELSE "Signed"

\* The network accepts a creation signed by the payer and by the admin key
\* it names, and a deletion of a live token signed by the payer and by the
\* admin key recorded for that token.
NetworkAccepts(tx, payer, led) ==
    /\ payer \in Range(tx.sigs)
    /\ IF tx.kind = "create"
       THEN FieldOf(tx, "set_admin_key") \in Range(tx.sigs)
       ELSE \E t \in led :
               /\ t.token_id = FieldOf(tx, "set_token_id")
               /\ ~t.deleted
               /\ t.admin_key \in Range(tx.sigs)

StatusesFor(tx, payer, led) ==
    IF NetworkAccepts(tx, payer, led) THEN RawStatuses
    ELSE {s \in RawStatuses : ~IsSuccessSentinel(s)}

NoReceipt == [status |-> NoStatus, token_id |-> None]

(***************************************************************************)
(* The state of the script.                                                *)
(***************************************************************************)
VARIABLES
    env,                \* the process environment
    pc,                 \* the statement the script is at
    exc,                \* the exception in flight, or NoExc
    client,             \* the Client object
    operator_id, operator_key, admin_key, token_id_to_delete,
    create_tx, delete_tx, chain_i,
    create_receipt, delete_receipt, rc,
    ledger,             \* the network's tokens
    out,                \* what the process has printed
    calls,              \* the collaborator calls made, with their outcomes
    exit_status         \* << >> while running, <<code>> once the process has ended

vars == <<env, pc, exc, client, operator_id, operator_key, admin_key,
          token_id_to_delete, create_tx, delete_tx, chain_i, create_receipt,
          delete_receipt, rc, ledger, out, calls, exit_status>>

locals == <<operator_id, operator_key, admin_key, token_id_to_delete>>
txs == <<create_tx, delete_tx, chain_i>>
receipts == <<create_receipt, delete_receipt, rc>>

NoClient == [network |-> None, operator_account_id |-> None, operator_key |-> None]

Printed(m, a) == [msg |-> m, arg |-> a]
print(m, a) == out' = Append(out, Printed(m, a))

Called(fn, on, res) == [fn |-> fn, on |-> on, result |-> res]
log(fn, on, res) == calls' = Append(calls, Called(fn, on, res))

Running == exit_status = << >> /\ exc = NoExc

\* An outcome of a call: on "ok" the statement's effect, else the exception is raised
\* at this statement.
Raise(e) == exc' = e /\ UNCHANGED pc

Init ==
    /\ env \in EnvChoices
    /\ pc = "setup_network"
    /\ exc = NoExc
    /\ client = NoClient
    /\ operator_id = None /\ operator_key = None
    /\ admin_key = None /\ token_id_to_delete = None
    /\ create_tx = NoTx /\ delete_tx = NoTx /\ chain_i = 0
    /\ create_receipt = NoReceipt /\ delete_receipt = NoReceipt /\ rc = NoStatus
    /\ ledger = {}
    /\ out = << >>
    /\ calls = << >>
    /\ exit_status = << >>

(***************************************************************************)
(* setup_client, lines 22-38.                                              *)
(***************************************************************************)
\* lines 24-25: network = Network(network_name); print
SetupNetwork ==
    /\ Running /\ pc = "setup_network"
    /\ \E r \in Outcomes(network_name_of(env) \notin KnownNetworks, {"ValueError"}) :
         /\ log("Network", "network", r)
         /\ IF r = "ok"
            THEN /\ print("Connecting to Hedera network", network_name_of(env))
                 /\ pc' = "setup_new_client"
                 /\ UNCHANGED exc
            ELSE Raise(r) /\ UNCHANGED out
    /\ UNCHANGED <<env, client, locals, txs, receipts, ledger, exit_status>>

\* line 26: client = Client(network)
SetupNewClient ==
    /\ Running /\ pc = "setup_new_client"
    /\ \E r \in Outcomes(FALSE, {}) :
         /\ log("Client", "client", r)
         /\ IF r = "ok"
            THEN /\ client' = [NoClient EXCEPT !.network = network_name_of(env)]
                 /\ pc' = "setup_operator_id"
                 /\ UNCHANGED exc
            ELSE Raise(r) /\ UNCHANGED client
    /\ UNCHANGED <<env, locals, txs, receipts, ledger, out, exit_status>>

\* line 30: operator_id = AccountId.from_string(os.getenv('OPERATOR_ID', ''))
SetupOperatorId ==
    /\ Running /\ pc = "setup_operator_id"
    /\ LET s == getenv(env, "OPERATOR_ID", "") IN
       \E r \in Outcomes(~AccountIdParses(s), {"ValueError", "TypeError"}) :
         /\ log("AccountId.from_string", "operator_id", r)
         /\ IF r = "ok"
            THEN /\ operator_id' = AccountId_from_string(s)
                 /\ pc' = "setup_operator_key"
                 /\ UNCHANGED exc
            ELSE Raise(r) /\ UNCHANGED operator_id
    /\ UNCHANGED <<env, client, operator_key, admin_key, token_id_to_delete,
                   txs, receipts, ledger, out, exit_status>>

\* line 31: operator_key = PrivateKey.from_string(os.getenv('OPERATOR_KEY', ''))
SetupOperatorKey ==
    /\ Running /\ pc = "setup_operator_key"
    /\ LET s == getenv(env, "OPERATOR_KEY", "") IN
       \E r \in Outcomes(~PrivateKeyParses(s), {"ValueError", "TypeError"}) :
         /\ log("PrivateKey.from_string", "operator_key", r)
         /\ IF r = "ok"
            THEN /\ operator_key' = PrivateKey_from_string(s)
                 /\ pc' = "setup_set_operator"
                 /\ UNCHANGED exc
            ELSE Raise(r) /\ UNCHANGED operator_key
    /\ UNCHANGED <<env, client, operator_id, admin_key, token_id_to_delete,
                   txs, receipts, ledger, out, exit_status>>

\* lines 33-35: client.set_operator(...); print; return
SetupSetOperator ==
    /\ Running /\ pc = "setup_set_operator"
    /\ \E r \in Outcomes(FALSE, {}) :
         /\ log("set_operator", "client", r)
         /\ IF r = "ok"
            THEN /\ client' = [client EXCEPT !.operator_account_id = operator_id,
                                             !.operator_key = operator_key]
                 /\ print("Client set up with operator id", operator_id)
                 /\ pc' = "generate_admin_key"
                 /\ UNCHANGED exc
            ELSE Raise(r) /\ UNCHANGED <<client, out>>
    /\ UNCHANGED <<env, locals, txs, receipts, ledger, exit_status>>

SetupTry == {"setup_operator_id", "setup_operator_key", "setup_set_operator"}

\* lines 36-38: except (TypeError, ValueError): print; sys.exit(1)
SetupExcept ==
    /\ exit_status = << >>
    /\ pc \in SetupTry /\ exc # NoExc /\ SetupCatches(exc)
    /\ print("Error: Please check OPERATOR_ID and OPERATOR_KEY", "")
    /\ exc' = SystemExit
    /\ pc' = "setup_except"
    /\ UNCHANGED <<env, client, locals, txs, receipts, ledger, calls, exit_status>>

(***************************************************************************)
(* generate_admin_key, lines 41-49.                                        *)
(***************************************************************************)
GenerateAdminKey ==
    /\ Running /\ pc = "generate_admin_key"
    /\ LET t == getenv(env, "KEY_TYPE", "ed25519") IN
       \E r \in Outcomes(t \notin KeyTypes, {"ValueError"}) :
         /\ log("PrivateKey.generate", "admin_key", r)
         /\ IF r = "ok"
            THEN /\ \E k \in AdminKeys : admin_key' = k
                 /\ out' = out \o <<Printed("Generating a new admin key", ""),
                                    Printed("Admin key generated successfully", "")>>
                 /\ pc' = "create_begin"
                 /\ UNCHANGED exc
            ELSE /\ Raise(r)
                 /\ out' = Append(out, Printed("Generating a new admin key", ""))
                 /\ UNCHANGED admin_key
    /\ UNCHANGED <<env, client, operator_id, operator_key, token_id_to_delete,
                   txs, receipts, ledger, exit_status>>

(***************************************************************************)
(* create_new_token, lines 51-92.                                          *)
(***************************************************************************)
\* Mutant of CreateChain: the request is signed before it is frozen.
CreateChainSignsUnfrozen ==
    << Call("new", "create"),
       Call("set_token_name", "My Deletable Token"),
       Call("set_token_symbol", "MDT"),
       Call("set_initial_supply", "1"),
       Call("set_treasury_account_id", operator_id),
       Call("set_admin_key", admin_key),
       Call("sign", operator_key),
       Call("freeze_with", "client"),
       Call("sign", admin_key) >>
\* lines 57-67: the fluent chain that builds, freezes and signs create_tx
CreateChain ==
    << Call("new", "create"),
       Call("set_token_name", "My Deletable Token"),
       Call("set_token_symbol", "MDT"),
       Call("set_initial_supply", "1"),
       Call("set_treasury_account_id", operator_id),
       Call("set_admin_key", admin_key),
       Call("freeze_with", "client"),
       Call("sign", operator_key),
       Call("sign", admin_key) >>

\* Mutant of StatusIsSuccess: the receipt status is not checked.
StatusNotChecked(r) == TRUE
\* lines 78 and 118: if rc != ResponseCode.SUCCESS (negated)
StatusIsSuccess(r) == PyEq(r, Member(SUCCESS_CODE))

\* lines 79-82 and 119-122: the name printed for a failing status
status_name_of(status, r) ==
    IF ~ResponseCodeRaises(status) THEN name_of(ResponseCode(status))
    ELSE IF hasattr_name(r) THEN name_of(r) ELSE str(r)

\* lines 72-76 and 113-116: rc = ResponseCode(status), or status itself
convert_status(status) ==
    IF ResponseCodeRaises(status) THEN status ELSE ResponseCode(status)

\* lines 53-56: token_id_to_delete = None; try: print
CreateBegin ==
    /\ Running /\ pc = "create_begin"
    /\ token_id_to_delete' = None
    /\ print("STEP 1: Creating a new token", "")
    /\ chain_i' = 0
    /\ pc' = "create_build"
    /\ UNCHANGED <<env, exc, client, operator_id, operator_key, admin_key,
                   create_tx, delete_tx, receipts, ledger, calls, exit_status>>

\* lines 57-67: one call of the chain
CreateBuild ==
    /\ Running /\ pc = "create_build"
    /\ LET c == CreateChain[chain_i + 1] IN
       \E r \in Outcomes(TxRejects(create_tx, c), Exceptions) :
         /\ log(c.op, "create", r)
         /\ IF r = "ok"
            THEN /\ create_tx' = TxApply(create_tx, c)
                 /\ chain_i' = chain_i + 1
                 /\ pc' = IF chain_i + 1 = Len(CreateChain)
                          THEN "create_execute" ELSE "create_build"
                 /\ UNCHANGED exc
            ELSE /\ create_tx' = TxAttempt(create_tx, c)
                 /\ Raise(r)
                 /\ UNCHANGED chain_i
    /\ UNCHANGED <<env, client, locals, delete_tx, receipts, ledger, out, exit_status>>

\* line 69: create_receipt = create_tx.execute(client)
CreateExecute ==
    /\ Running /\ pc = "create_execute"
    /\ LET c == Call("execute", "client") IN
       \E r \in Outcomes(TxRejects(create_tx, c), Exceptions) :
         /\ log(c.op, "create", r)
         /\ IF r = "ok"
            THEN /\ create_tx' = TxApply(create_tx, c)
                 /\ \E s \in StatusesFor(create_tx, client.operator_key, ledger) :
                      IF IsSuccessSentinel(s)
                      THEN \E t \in TokenIds :
                             /\ \A l \in ledger : l.token_id # t
                             /\ create_receipt' = [status |-> s, token_id |-> t]
                             /\ ledger' = ledger \cup
                                   {[token_id |-> t,
                                     admin_key |-> FieldOf(create_tx, "set_admin_key"),
                                     deleted |-> FALSE]}
                      ELSE /\ create_receipt' = [status |-> s, token_id |-> None]
                           /\ UNCHANGED ledger
                 /\ pc' = "create_convert"
                 /\ UNCHANGED exc
            ELSE /\ create_tx' = TxAttempt(create_tx, c)
                 /\ Raise(r)
                 /\ UNCHANGED <<create_receipt, ledger>>
    /\ UNCHANGED <<env, client, locals, delete_tx, chain_i, delete_receipt, rc,
                   out, exit_status>>

\* lines 72-76: try: rc = ResponseCode(create_receipt.status) except Exception: rc = status
CreateConvertStatus ==
    /\ Running /\ pc = "create_convert"
    /\ rc' = convert_status(create_receipt.status)
    /\ log("ResponseCode", "create",
           IF ResponseCodeRaises(create_receipt.status) THEN "ValueError" ELSE "ok")
    /\ pc' = "create_check"
    /\ UNCHANGED <<env, exc, client, locals, txs, create_receipt, delete_receipt,
                   ledger, out, exit_status>>

\* lines 78-84: the status is not SUCCESS: print its name; sys.exit(1)
CreateStatusFailed ==
    /\ Running /\ pc = "create_check"
    /\ ~StatusIsSuccess(rc)
    /\ log("ResponseCode", "create",
           IF ResponseCodeRaises(create_receipt.status) THEN "ValueError" ELSE "ok")
    /\ print("Token creation failed with status",
             status_name_of(create_receipt.status, rc))
    /\ exc' = SystemExit
    /\ pc' = "create_sys_exit"
    /\ UNCHANGED <<env, client, locals, txs, receipts, ledger, exit_status>>

\* Mutant of CreateStatusOk: main returns without calling delete_token.
CreateStatusOkSkipsDelete ==
    /\ Running /\ pc = "create_check"
    /\ StatusIsSuccess(rc)
    /\ token_id_to_delete' = create_receipt.token_id
    /\ print("Token created successfully", create_receipt.token_id)
    /\ pc' = "main_return"
    /\ UNCHANGED <<env, exc, client, operator_id, operator_key, admin_key, txs,
                   receipts, ledger, calls, exit_status>>
\* lines 86-88: token_id_to_delete = create_receipt.token_id; print; return
CreateStatusOk ==
    /\ Running /\ pc = "create_check"
    /\ StatusIsSuccess(rc)
    /\ token_id_to_delete' = create_receipt.token_id
    /\ print("Token created successfully", create_receipt.token_id)
    /\ pc' = "delete_begin"
    /\ UNCHANGED <<env, exc, client, operator_id, operator_key, admin_key, txs,
                   receipts, ledger, calls, exit_status>>

CreateTry == {"create_build", "create_execute", "create_convert", "create_check",
              "create_sys_exit"}

\* lines 90-92: except Exception as e: print; sys.exit(1)
CreateExcept ==
    /\ exit_status = << >>
    /\ pc \in CreateTry /\ exc # NoExc /\ StepCatches(exc)
    /\ print("Error creating token", exc)
    /\ exc' = SystemExit
    /\ pc' = "create_except"
    /\ UNCHANGED <<env, client, locals, txs, receipts, ledger, calls, exit_status>>

(***************************************************************************)
(* delete_token, lines 95-130.                                             *)
(***************************************************************************)
\* Mutant of DeleteChain: the deletion names the default id, not the receipt's.
DeleteChainDefaultId ==
    << Call("new", "delete"),
       Call("set_token_id", None),
       Call("freeze_with", "client"),
       Call("sign", operator_key),
       Call("sign", admin_key) >>
\* Mutant of DeleteChain: the deletion is signed by another admin key.
DeleteChainOtherKey ==
    << Call("new", "delete"),
       Call("set_token_id", token_id_to_delete),
       Call("freeze_with", "client"),
       Call("sign", operator_key),
       Call("sign", CHOOSE k \in AdminKeys : k # admin_key) >>
\* lines 102-108: the fluent chain that builds, freezes and signs delete_tx
DeleteChain ==
    << Call("new", "delete"),
       Call("set_token_id", token_id_to_delete),
       Call("freeze_with", "client"),
       Call("sign", operator_key),
       Call("sign", admin_key) >>

\* lines 100-101: try: print
DeleteBegin ==
    /\ Running /\ pc = "delete_begin"
    /\ print("STEP 2: Deleting token", token_id_to_delete)
    /\ chain_i' = 0
    /\ pc' = "delete_build"
    /\ UNCHANGED <<env, exc, client, locals, create_tx, delete_tx, receipts,
                   ledger, calls, exit_status>>

\* lines 102-108: one call of the chain
DeleteBuild ==
    /\ Running /\ pc = "delete_build"
    /\ LET c == DeleteChain[chain_i + 1] IN
       \E r \in Outcomes(TxRejects(delete_tx, c), Exceptions) :
         /\ log(c.op, "delete", r)
         /\ IF r = "ok"
            THEN /\ delete_tx' = TxApply(delete_tx, c)
                 /\ chain_i' = chain_i + 1
                 /\ pc' = IF chain_i + 1 = Len(DeleteChain)
                          THEN "delete_execute" ELSE "delete_build"
                 /\ UNCHANGED exc
            ELSE /\ delete_tx' = TxAttempt(delete_tx, c)
                 /\ Raise(r)
                 /\ UNCHANGED chain_i
    /\ UNCHANGED <<env, client, locals, create_tx, receipts, ledger, out, exit_status>>

\* line 110: delete_receipt = delete_tx.execute(client)
DeleteExecute ==
    /\ Running /\ pc = "delete_execute"
    /\ LET c == Call("execute", "client") IN
       \E r \in Outcomes(TxRejects(delete_tx, c), Exceptions) :
         /\ log(c.op, "delete", r)
         /\ IF r = "ok"
            THEN /\ delete_tx' = TxApply(delete_tx, c)
                 /\ \E s \in StatusesFor(delete_tx, client.operator_key, ledger) :
                      /\ delete_receipt' = [status |-> s, token_id |-> None]
                      /\ ledger' =
                           IF IsSuccessSentinel(s)
                           THEN {IF l.token_id = FieldOf(delete_tx, "set_token_id")
                                 THEN [l EXCEPT !.deleted = TRUE] ELSE l : l \in ledger}
                           ELSE ledger
                 /\ pc' = "delete_convert"
                 /\ UNCHANGED exc
            ELSE /\ delete_tx' = TxAttempt(delete_tx, c)
                 /\ Raise(r)
                 /\ UNCHANGED <<delete_receipt, ledger>>
    /\ UNCHANGED <<env, client, locals, create_tx, chain_i, create_receipt, rc,
                   out, exit_status>>

\* lines 113-116: try: rc = ResponseCode(delete_receipt.status) except Exception: rc = status
DeleteConvertStatus ==
    /\ Running /\ pc = "delete_convert"
    /\ rc' = convert_status(delete_receipt.status)
    /\ log("ResponseCode", "delete",
           IF ResponseCodeRaises(delete_receipt.status) THEN "ValueError" ELSE "ok")
    /\ pc' = "delete_check"
    /\ UNCHANGED <<env, exc, client, locals, txs, create_receipt, delete_receipt,
                   ledger, out, exit_status>>

\* Mutant of DeleteStatusFailed: the sys.exit(1) is missing and line 126 follows.
DeleteStatusFailedNoExit ==
    /\ Running /\ pc = "delete_check"
    /\ ~StatusIsSuccess(rc)
    /\ log("ResponseCode", "delete",
           IF ResponseCodeRaises(delete_receipt.status) THEN "ValueError" ELSE "ok")
    /\ out' = out \o <<Printed("Token deletion failed with status",
                               status_name_of(delete_receipt.status, rc)),
                       Printed("Token deleted successfully", token_id_to_delete)>>
    /\ pc' = "main_return"
    /\ UNCHANGED <<env, exc, client, locals, txs, receipts, ledger, exit_status>>
\* lines 118-124: the status is not SUCCESS: print its name; sys.exit(1)
DeleteStatusFailed ==
    /\ Running /\ pc = "delete_check"
    /\ ~StatusIsSuccess(rc)
    /\ log("ResponseCode", "delete",
           IF ResponseCodeRaises(delete_receipt.status) THEN "ValueError" ELSE "ok")
    /\ print("Token deletion failed with status",
             status_name_of(delete_receipt.status, rc))
    /\ exc' = SystemExit
    /\ pc' = "delete_sys_exit"
    /\ UNCHANGED <<env, client, locals, txs, receipts, ledger, exit_status>>

\* line 126: print; delete_token returns to main
DeleteStatusOk ==
    /\ Running /\ pc = "delete_check"
    /\ StatusIsSuccess(rc)
    /\ print("Token deleted successfully", token_id_to_delete)
    /\ pc' = "main_return"
    /\ UNCHANGED <<env, exc, client, locals, txs, receipts, ledger, calls, exit_status>>

DeleteTry == {"delete_build", "delete_execute", "delete_convert", "delete_check",
              "delete_sys_exit"}

\* Mutant of DeleteExcept: the handler prints and returns, without sys.exit(1).
DeleteExceptNoExit ==
    /\ exit_status = << >>
    /\ pc \in DeleteTry /\ exc # NoExc /\ StepCatches(exc)
    /\ print("Error deleting token", exc)
    /\ exc' = NoExc
    /\ pc' = "main_return"
    /\ UNCHANGED <<env, client, locals, txs, receipts, ledger, calls, exit_status>>
\* lines 128-130: except Exception as e: print; sys.exit(1)
DeleteExcept ==
    /\ exit_status = << >>
    /\ pc \in DeleteTry /\ exc # NoExc /\ StepCatches(exc)
    /\ print("Error deleting token", exc)
    /\ exc' = SystemExit
    /\ pc' = "delete_except"
    /\ UNCHANGED <<env, client, locals, txs, receipts, ledger, calls, exit_status>>

(***************************************************************************)
(* main and the interpreter, lines 132-147.                                *)
(***************************************************************************)
HandlerApplies ==
    \/ pc \in SetupTry /\ SetupCatches(exc)
    \/ pc \in CreateTry /\ StepCatches(exc)
    \/ pc \in DeleteTry /\ StepCatches(exc)

\* lines 146-147: an exception no handler takes leaves main(): SystemExit(1)
\* ends the process with status 1; any other exception ends it with a
\* traceback and status 1.
Uncaught ==
    /\ exit_status = << >>
    /\ exc # NoExc /\ ~HandlerApplies
    /\ out' = IF exc = SystemExit THEN out ELSE Append(out, Printed("Traceback", exc))
    /\ exit_status' = <<1>>
    /\ UNCHANGED <<env, pc, exc, client, locals, txs, receipts, ledger, calls>>

\* lines 144-147: main() returns and the process ends with status 0
MainReturn ==
    /\ Running /\ pc = "main_return"
    /\ exit_status' = <<0>>
    /\ pc' = "exited"
    /\ UNCHANGED <<env, exc, client, locals, txs, receipts, ledger, out, calls>>

Next ==
    \/ SetupNetwork \/ SetupNewClient \/ SetupOperatorId \/ SetupOperatorKey
    \/ SetupSetOperator \/ SetupExcept
    \/ GenerateAdminKey
    \/ CreateBegin \/ CreateBuild \/ CreateExecute \/ CreateConvertStatus
    \/ CreateStatusFailed \/ CreateStatusOk \/ CreateExcept
    \/ DeleteBegin \/ DeleteBuild \/ DeleteExecute \/ DeleteConvertStatus
    \/ DeleteStatusFailed \/ DeleteStatusOk \/ DeleteExcept
    \/ Uncaught \/ MainReturn

Spec == Init /\ [][Next]_vars

\* The interpreter runs the script to its end: it never stops between statements.
FairSpec == Spec /\ WF_vars(Next)

Terminated == exit_status # << >>

(***************************************************************************)
(* Vocabulary of the properties.                                           *)
(***************************************************************************)
HasPrinted(m) == \E i \in 1..Len(out) : out[i].msg = m

PrintedAt(m) == {i \in 1..Len(out) : out[i].msg = m}

StatusDiagnostics == {"Token creation failed with status",
                      "Token deletion failed with status"}
GenericDiagnostics == {"Error creating token", "Error deleting token"}
FailureDiagnostics ==
    StatusDiagnostics \cup GenericDiagnostics
      \cup {"Error: Please check OPERATOR_ID and OPERATOR_KEY", "Traceback"}

DiagnosticsPrinted == {i \in 1..Len(out) : out[i].msg \in FailureDiagnostics}

CallsOn(on) == {i \in 1..Len(calls) : calls[i].on = on}
ExecCount(on) ==
    Cardinality({i \in CallsOn(on) : calls[i].fn = "execute"})

\* The calls of a step's build, freeze, sign and execute that raised.
StepRaises(on) ==
    {i \in CallsOn(on) : calls[i].fn # "ResponseCode" /\ calls[i].result # "ok"}

CreateFailedStatus ==
    create_receipt # NoReceipt /\ ~IsSuccessSentinel(create_receipt.status)
DeleteFailedStatus ==
    delete_receipt # NoReceipt /\ ~IsSuccessSentinel(delete_receipt.status)

OperatorMalformed ==
    \/ ~AccountIdParses(getenv(env, "OPERATOR_ID", ""))
    \/ ~PrivateKeyParses(getenv(env, "OPERATOR_KEY", ""))

ConfigInvalid ==
    \/ OperatorMalformed
    \/ network_name_of(env) \notin KnownNetworks
    \/ getenv(env, "KEY_TYPE", "ed25519") \notin KeyTypes

SomeCallRaised == \E i \in 1..Len(calls) : calls[i].result # "ok"

ExitedWith(n) == exit_status = <<n>>

(***************************************************************************)
(* Properties.                                                             *)
(***************************************************************************)

\* C1: every collaborator call on the deletion request comes after the
\* creation request's execute has returned, and the id given to
\* set_token_id is the token_id of the creation receipt.
C1_CreateBeforeDelete ==
    /\ \A i \in CallsOn("delete") :
          \E j \in 1..(i - 1) : calls[j] = Called("execute", "create", "ok")
    /\ \A i \in 1..Len(delete_tx.hist) :
          delete_tx.hist[i].op = "set_token_id" =>
             /\ create_receipt # NoReceipt
             /\ delete_tx.hist[i].arg = create_receipt.token_id
             /\ delete_tx.hist[i].arg \in TokenIds

C1_Witness ==
    /\ delete_tx.executed = 1
    /\ FieldOf(delete_tx, "set_token_id") = create_receipt.token_id
    /\ create_receipt.token_id \in TokenIds

\* C2: once the creation receipt carries a status that is not SUCCESS
\* (converted or not), no deletion request exists, no call is made on one,
\* the script never reaches delete_token, and the process ends with status 1.
C2_NoDeleteAfterFailedCreate ==
    CreateFailedStatus =>
       /\ delete_tx = NoTx
       /\ CallsOn("delete") = {}
       /\ pc \in {"create_convert", "create_check", "create_sys_exit"}
       /\ ~HasPrinted("STEP 2: Deleting token")
       /\ Terminated => ExitedWith(1)
       /\ Terminated \/ ENABLED Next

C2_Witness ==
    /\ Terminated /\ CreateFailedStatus
    /\ ResponseCodeRaises(create_receipt.status)
    /\ client.operator_account_id # None

\* C3: once the deletion receipt carries a status that is not SUCCESS, the
\* deletion success message is never printed, and the process ends with
\* status 1 after printing the name of the failing status.
C3_DeleteFailureReported ==
    DeleteFailedStatus =>
       /\ ~HasPrinted("Token deleted successfully")
       /\ pc \in {"delete_convert", "delete_check", "delete_sys_exit"}
       /\ Terminated =>
             /\ ExitedWith(1)
             /\ \E i \in PrintedAt("Token deletion failed with status") :
                   out[i].arg =
                      IF ResponseCodeRaises(delete_receipt.status)
                      THEN str(delete_receipt.status)
                      ELSE ResponseCodeName(delete_receipt.status.code)

C3_Witness ==
    /\ Terminated /\ DeleteFailedStatus
    /\ HasPrinted("Token deletion failed with status")

\* C4: the process ends with status 0 only when both receipts were received
\* with status SUCCESS; a run with an invalid configuration value, a failing
\* receipt status or a raising collaborator call ends with status 1 and a
\* printed diagnostic; and the script never stops before the process ends.
C4_ExitCodes ==
    /\ ExitedWith(0) =>
          /\ create_receipt # NoReceipt /\ IsSuccessSentinel(create_receipt.status)
          /\ delete_receipt # NoReceipt /\ IsSuccessSentinel(delete_receipt.status)
    /\ (Terminated /\ (ConfigInvalid \/ CreateFailedStatus \/ DeleteFailedStatus
                          \/ SomeCallRaised)) =>
          /\ ExitedWith(1)
          /\ DiagnosticsPrinted # {}
    /\ Terminated \/ ENABLED Next

C4_Witness ==
    /\ ExitedWith(1)
    /\ calls[Len(calls)] = Called("PrivateKey.generate", "admin_key", "ValueError")
    /\ HasPrinted("Traceback")

\* C5: on both requests every setter precedes freeze_with, every sign call
\* follows freeze_with, execute is called only on a request that carries
\* the operator's signature and then the admin key's, and the request's
\* lifecycle only moves Draft -> Frozen -> PartiallySigned -> Signed ->
\* Submitted.
OrderedHist(tx) ==
    LET h == tx.hist IN
    /\ \A i \in 1..Len(h) :
          h[i].op \in Setters => \A j \in 1..(i - 1) : h[j].op # "freeze_with"
    /\ \A i \in 1..Len(h) :
          h[i].op = "sign" => \E j \in 1..(i - 1) : h[j].op = "freeze_with"
    /\ \A i \in 1..Len(h) :
          h[i].op = "execute" =>
             /\ tx.frozen
             /\ tx.sigs = <<client.operator_key, admin_key>>
             /\ client.operator_key = operator_key
             /\ \E j, k \in 1..(i - 1) :
                    /\ j < k
                    /\ h[j] = Call("sign", operator_key)
                    /\ h[k] = Call("sign", admin_key)
             /\ \A j \in (i + 1)..Len(h) : FALSE

LifecycleOrder ==
    {<<"Absent", "Draft">>, <<"Draft", "Frozen">>, <<"Frozen", "PartiallySigned">>,
     <<"PartiallySigned", "Signed">>, <<"Signed", "Submitted">>}

LifecycleAdvances(a, b) == a = b \/ <<a, b>> \in LifecycleOrder

C5_RequestLifecycle ==
    /\ [](OrderedHist(create_tx) /\ OrderedHist(delete_tx))
    /\ [][/\ LifecycleAdvances(Lifecycle(create_tx), Lifecycle(create_tx'))
           /\ LifecycleAdvances(Lifecycle(delete_tx), Lifecycle(delete_tx'))]_vars

C5_Witness ==
    /\ Lifecycle(create_tx) = "Submitted"
    /\ Lifecycle(delete_tx) = "Submitted"
    /\ Len(delete_tx.sigs) = 2

\* C6: PrivateKey.generate is called at most once, before any call on the
\* creation request; admin_key never changes once set; the key set as the
\* token's admin key, the key that signs the creation and the key that
\* signs the deletion are that one key; and the network gives no SUCCESS to
\* the deletion signed with any other admin key instead.
GenerateCalls == {i \in 1..Len(calls) : calls[i].fn = "PrivateKey.generate"}

SameAdminKey ==
    /\ Cardinality(GenerateCalls) <= 1
    /\ \A i \in CallsOn("create") :
          \E j \in GenerateCalls : j < i /\ calls[j].result = "ok"
    /\ \A tx \in {create_tx, delete_tx} :
          /\ \A i \in 1..Len(tx.hist) :
                tx.hist[i].op = "set_admin_key" =>
                   tx.hist[i].arg = admin_key /\ admin_key \in AdminKeys
          /\ Len(tx.sigs) = 2 => tx.sigs[2] = admin_key
          /\ \A i \in 1..Len(tx.sigs) : tx.sigs[i] \in AdminKeys => tx.sigs[i] = admin_key
    /\ Len(delete_tx.sigs) = 2 =>
          /\ delete_tx.sigs[2] = FieldOf(create_tx, "set_admin_key")
          /\ delete_tx.sigs[2] = create_tx.sigs[2]
    /\ pc = "delete_execute" =>
          \A k \in AdminKeys \ {admin_key} :
             \A st \in StatusesFor([delete_tx EXCEPT !.sigs = <<operator_key, k>>],
                                    client.operator_key, ledger) :
                ~IsSuccessSentinel(st)

C6_OneAdminKey ==
    /\ []SameAdminKey
    /\ [][admin_key # None => admin_key' = admin_key]_vars

C6_Witness ==
    /\ delete_tx.executed = 1
    /\ delete_tx.sigs[2] = create_tx.sigs[2]
    /\ IsSuccessSentinel(delete_receipt.status)

\* C7: with a malformed or missing OPERATOR_ID or OPERATOR_KEY the operator
\* is never set on the client, no admin key is generated, no request is
\* built, the script never leaves setup_client, and the process ends with
\* status 1 and one diagnostic: the configuration message when the
\* parser's ValueError or TypeError is what ended the run.
ParserRaised ==
    /\ calls # << >>
    /\ calls[Len(calls)].fn \in {"AccountId.from_string", "PrivateKey.from_string"}
    /\ calls[Len(calls)].result \in {"ValueError", "TypeError"}

C7_MalformedOperator ==
    OperatorMalformed =>
       /\ client.operator_account_id = None /\ client.operator_key = None
       /\ admin_key = None /\ GenerateCalls = {}
       /\ create_tx = NoTx /\ delete_tx = NoTx
       /\ CallsOn("create") \cup CallsOn("delete") = {}
       /\ pc \in {"setup_network", "setup_new_client", "setup_except"} \cup SetupTry
       /\ Terminated =>
             /\ ExitedWith(1)
             /\ Cardinality(DiagnosticsPrinted) = 1
             /\ ParserRaised =>
                   out[Len(out)].msg = "Error: Please check OPERATOR_ID and OPERATOR_KEY"
       /\ Terminated \/ ENABLED Next

C7_Witness ==
    /\ Terminated /\ ParserRaised
    /\ AccountIdParses(getenv(env, "OPERATOR_ID", ""))
    /\ ~PrivateKeyParses(getenv(env, "OPERATOR_KEY", ""))
    /\ HasPrinted("Error: Please check OPERATOR_ID and OPERATOR_KEY")

\* C8: execute is called at most once on each request; a build, freeze,
\* sign or execute call that raises is the last collaborator call of the
\* run, and the run ends with status 1 and the step's own error message,
\* not with a traceback.
StepMessage(on) ==
    IF on = "create" THEN "Error creating token" ELSE "Error deleting token"

C8_NoRetry ==
    /\ ExecCount("create") <= 1 /\ ExecCount("delete") <= 1
    /\ create_tx.executed <= 1 /\ delete_tx.executed <= 1
    /\ \A on \in {"create", "delete"} :
          \A i \in StepRaises(on) :
             /\ i = Len(calls)
             /\ Terminated =>
                   /\ ExitedWith(1)
                   /\ out[Len(out)] = Printed(StepMessage(on), calls[i].result)
                   /\ ~HasPrinted("Traceback")
             /\ Terminated \/ ENABLED Next

C8_Witness ==
    /\ Terminated
    /\ \E i \in StepRaises("delete") : calls[i].fn = "execute"
    /\ HasPrinted("Error deleting token")

\* C9: every run ends; a run with a valid configuration in which no
\* collaborator call raised and every receipt received had status SUCCESS
\* ends with status 0, both receipts received, and the token-created
\* message printed before the token-deleted message, both with the token id
\* of the creation receipt.
NoFailureObserved ==
    /\ ~ConfigInvalid /\ ~SomeCallRaised
    /\ ~CreateFailedStatus /\ ~DeleteFailedStatus

SuccessOutcome ==
    /\ ExitedWith(0)
    /\ create_receipt # NoReceipt /\ delete_receipt # NoReceipt
    /\ \E i, j \in 1..Len(out) :
          /\ i < j
          /\ out[i] = Printed("Token created successfully", create_receipt.token_id)
          /\ out[j] = Printed("Token deleted successfully", create_receipt.token_id)
    /\ create_receipt.token_id \in TokenIds

C9_SuccessEnds ==
    /\ <>Terminated
    /\ []((Terminated /\ NoFailureObserved) => SuccessOutcome)

C9_Witness ==
    /\ Terminated /\ NoFailureObserved /\ SuccessOutcome
    /\ delete_receipt.status.kind = "int"

\* C10: a run that ends with a non-zero status has printed exactly one
\* failure diagnostic; the status message of a step and its generic error
\* message are never both printed; a receipt with a failing status ends the
\* run with the status message, and a raising build, freeze, sign or
\* execute call ends it with the generic message.
C10_OneDiagnostic ==
    /\ (Terminated /\ ~ExitedWith(0)) => Cardinality(DiagnosticsPrinted) = 1
    /\ Cardinality(DiagnosticsPrinted) <= 1
    /\ ~(HasPrinted("Token creation failed with status")
            /\ HasPrinted("Error creating token"))
    /\ ~(HasPrinted("Token deletion failed with status")
            /\ HasPrinted("Error deleting token"))
    /\ Terminated =>
          /\ CreateFailedStatus => HasPrinted("Token creation failed with status")
          /\ DeleteFailedStatus => HasPrinted("Token deletion failed with status")
          /\ StepRaises("create") # {} => HasPrinted("Error creating token")
          /\ StepRaises("delete") # {} => HasPrinted("Error deleting token")

C10_Witness ==
    /\ Terminated
    /\ HasPrinted("Token creation failed with status")
    /\ exc = SystemExit /\ pc = "create_sys_exit"

=============================================================================
